---- MODULE Spec2Model ----
(***************************************************************************)
(* easy_handeye2/handeye_calibration.py: the hand-eye calibration record,  *)
(* its parameters, the parameter provider, the dict/yaml conversions and   *)
(* the file operations, as a state machine over the objects a caller      *)
(* holds, the ROS parameter store and the filesystem.                      *)
(***************************************************************************)
EXTENDS Naturals, Sequences, FiniteSets, TLC

VARIABLES
    check_fields,   \* whether the geometry_msgs field setters assert their types
    dir_exists,     \* os.path.exists(HandeyeCalibration.DIRECTORY)
    files,          \* the names of the files that exist
    written,        \* the files written since the start: file name -> text
    open_handles,   \* the file handles currently open
    node_params,    \* the node's declared parameters: name -> ParameterValue
    provider,       \* whether a HandeyeCalibrationParametersProvider was constructed
    parameters,     \* <<p>>: the record read() returned last, <<>> if none
    calibration,    \* <<c>>: the HandeyeCalibration at hand, <<>> if none
    in_dict,        \* the object handed to from_dict last
    io,             \* the filesystem calls of the last operation, in order
    last            \* the last operation: its name, its argument, how it ended
                    \* and whether the text it was to parse was well-formed

vars == <<check_fields, dir_exists, files, written, open_handles, node_params, provider,
          parameters, calibration, in_dict, io, last>>

----------------------------------------------------------------------------
(* Python values.  Every value carries its type; a dict carries its items. *)

NoItems == <<>>
Str(s) == [t |-> "str", v |-> s, d |-> NoItems]
Bool(s) == [t |-> "bool", v |-> s, d |-> NoItems]
Float(s) == [t |-> "float", v |-> s, d |-> NoItems]
Int(s) == [t |-> "int", v |-> s, d |-> NoItems]
NoneObj == [t |-> "NoneType", v |-> "None", d |-> NoItems]
Dict(f) == [t |-> "dict", v |-> "", d |-> f]

True == Bool("True")
False == Bool("False")

\* bool(value), as the `if` of the constructor takes it
Truthy(o) ==
    CASE o.t = "bool" -> o.v = "True"
      [] o.t = "str" -> o.v # ""
      [] o.t = "float" -> o.v # "0.0"
      [] o.t = "int" -> o.v # "0"
      [] o.t = "dict" -> DOMAIN o.d # {}
      [] OTHER -> FALSE

\* the outcome of a call: a returned value, or the exception it raised
Return(v) == [err |-> "ok", val |-> <<v>>]
Raise(e) == [err |-> e, val |-> <<>>]
Returned(r) == r.err = "ok"
ValueOf(r) == r.val[1]

\* GetItem with a default for a missing key, as dict.get(key, 0.0) would do
GetItem_with_default(o, key) ==
    IF o.t # "dict" THEN Raise("TypeError")
    ELSE IF key \notin DOMAIN o.d THEN Return(Float("0.0"))
    ELSE Return(o.d[key])

\* obj[key], the subscription of any Python value
GetItem(o, key) ==
    IF o.t # "dict" THEN Raise("TypeError")
    ELSE IF key \notin DOMAIN o.d THEN Raise("KeyError")
    ELSE Return(o.d[key])

----------------------------------------------------------------------------
(* HandeyeCalibrationParameters, a dataclass                               *)

RequiredFields ==
    {"name", "eye_in_hand", "robot_base_frame", "robot_effector_frame",
     "tracking_base_frame", "tracking_marker_frame", "freehand_robot_movement"}

FieldDefaults == [move_group_namespace |-> Str("/"), move_group |-> Str("manipulator")]

Fields == RequiredFields \cup DOMAIN FieldDefaults

\* the type each field is annotated with
FieldTypes ==
    [name |-> "str", eye_in_hand |-> "bool", robot_base_frame |-> "str",
     robot_effector_frame |-> "str", tracking_base_frame |-> "str",
     tracking_marker_frame |-> "str", freehand_robot_movement |-> "bool",
     move_group_namespace |-> "str", move_group |-> "str"]

\* the dataclass with every field optional (each with a default of None)
HandeyeCalibrationParameters_all_optional(kwargs) ==
    IF kwargs.t # "dict" THEN Raise("TypeError")
    ELSE IF ~(DOMAIN kwargs.d \subseteq Fields) THEN Raise("TypeError")
    ELSE Return([f \in Fields |->
                    IF f \in DOMAIN kwargs.d THEN kwargs.d[f]
                    ELSE IF f \in DOMAIN FieldDefaults THEN FieldDefaults[f] ELSE NoneObj])

\* HandeyeCalibrationParameters(**kwargs): the generated __init__ binds the
\* keywords to the fields and checks no value's type
HandeyeCalibrationParameters(kwargs) ==
    IF kwargs.t # "dict" THEN Raise("TypeError")
    ELSE IF ~(DOMAIN kwargs.d \subseteq Fields) THEN Raise("TypeError")
    ELSE IF ~(RequiredFields \subseteq DOMAIN kwargs.d) THEN Raise("TypeError")
    ELSE Return([f \in Fields |->
                    IF f \in DOMAIN kwargs.d THEN kwargs.d[f] ELSE FieldDefaults[f]])

\* dataclasses.asdict(parameters)
asdict(p) == Dict([f \in Fields |-> p[f]])

----------------------------------------------------------------------------
(* geometry_msgs: Vector3, Quaternion, Transform, TransformStamped         *)

\* a field setter of a message: asserts the value's type when checks are on
FieldAccepts(value, type) == ~check_fields \/ value.t = type

Vector3(x, y, z) ==
    IF \A c \in {x, y, z} : FieldAccepts(c, "float")
    THEN Return([x |-> x, y |-> y, z |-> z])
    ELSE Raise("AssertionError")

Quaternion(x, y, z, w) ==
    IF \A c \in {x, y, z, w} : FieldAccepts(c, "float")
    THEN Return([x |-> x, y |-> y, z |-> z, w |-> w])
    ELSE Raise("AssertionError")

Transform(translation, rotation) == [translation |-> translation, rotation |-> rotation]

\* Transform(): zero translation, identity rotation
DefaultTransform ==
    Transform([x |-> Float("0.0"), y |-> Float("0.0"), z |-> Float("0.0")],
              [x |-> Float("0.0"), y |-> Float("0.0"), z |-> Float("0.0"), w |-> Float("1.0")])

\* TransformStamped(transform=transformation): the frame names start empty
TransformStamped(transform) ==
    [header |-> [frame_id |-> Str("")], child_frame_id |-> Str(""), transform |-> transform]

----------------------------------------------------------------------------
(* HandeyeCalibration                                                      *)

\* the two branches of the constructor's `if` exchanged
HeaderFrame_exchanged(p) ==
    IF Truthy(p["eye_in_hand"]) THEN p["robot_base_frame"] ELSE p["robot_effector_frame"]

\* the frame the constructor writes to transformation.header.frame_id
HeaderFrame(p) ==
    IF Truthy(p["eye_in_hand"]) THEN p["robot_effector_frame"] ELSE p["robot_base_frame"]

\* the frame the constructor writes to transformation.child_frame_id
ChildFrame(p) == p["tracking_base_frame"]

\* HandeyeCalibration.__init__(calibration_parameters, transformation), both
\* given as <<>> for None or <<value>>
HandeyeCalibration(calibration_parameters, transformation) ==
    LET tf == IF transformation = <<>> THEN DefaultTransform ELSE transformation[1]
        ts == TransformStamped(tf)
    IN  IF calibration_parameters = <<>> THEN Raise("AttributeError")
        ELSE LET p == calibration_parameters[1]
             IN  IF ~FieldAccepts(HeaderFrame(p), "str") THEN Raise("AssertionError")
                 ELSE IF ~FieldAccepts(ChildFrame(p), "str") THEN Raise("AssertionError")
                 ELSE Return([parameters |-> p,
                              transformation |->
                                  [ts EXCEPT !.header.frame_id = HeaderFrame(p),
                                             !.child_frame_id = ChildFrame(p)]])

\* to_dict with the rotation's x and w written to each other's key
to_dict_qx_qw_exchanged(c) ==
    Dict([parameters |-> asdict(c.parameters),
          transformation |->
              Dict([x |-> c.transformation.transform.translation.x,
                    y |-> c.transformation.transform.translation.y,
                    z |-> c.transformation.transform.translation.z,
                    qx |-> c.transformation.transform.rotation.w,
                    qy |-> c.transformation.transform.rotation.y,
                    qz |-> c.transformation.transform.rotation.z,
                    qw |-> c.transformation.transform.rotation.x])])

\* HandeyeCalibration.to_dict(calibration)
to_dict(c) ==
    Dict([parameters |-> asdict(c.parameters),
          transformation |->
              Dict([x |-> c.transformation.transform.translation.x,
                    y |-> c.transformation.transform.translation.y,
                    z |-> c.transformation.transform.translation.z,
                    qx |-> c.transformation.transform.rotation.x,
                    qy |-> c.transformation.transform.rotation.y,
                    qz |-> c.transformation.transform.rotation.z,
                    qw |-> c.transformation.transform.rotation.w])])

\* the first exception among the outcomes of a left-to-right evaluation
FirstError(rs) ==
    LET bad == {i \in 1..Len(rs) : ~Returned(rs[i])}
    IN  IF bad = {} THEN "ok"
        ELSE rs[CHOOSE i \in bad : \A j \in bad : i <= j].err

\* HandeyeCalibration.from_dict(in_dict), in Python's order of evaluation:
\* in_dict['transformation']; the parameters; the translation and its Vector3;
\* the rotation and its Quaternion; the constructor
from_dict(d) ==
    LET tr == GetItem(d, "transformation")
    IN  IF ~Returned(tr) THEN Raise(tr.err)
        ELSE
        LET pd == GetItem(d, "parameters")
            params == IF Returned(pd) THEN HandeyeCalibrationParameters(ValueOf(pd)) ELSE pd
            t == [k \in {"x", "y", "z", "qx", "qy", "qz", "qw"} |-> GetItem(ValueOf(tr), k)]
            tkeys == FirstError(<<t["x"], t["y"], t["z"]>>)
            rkeys == FirstError(<<t["qx"], t["qy"], t["qz"], t["qw"]>>)
        IN  IF ~Returned(params) THEN Raise(params.err)
            ELSE IF tkeys # "ok" THEN Raise(tkeys)
            ELSE
            LET translation == Vector3(ValueOf(t["x"]), ValueOf(t["y"]), ValueOf(t["z"]))
            IN  IF ~Returned(translation) THEN Raise(translation.err)
                ELSE IF rkeys # "ok" THEN Raise(rkeys)
                ELSE
                LET rotation == Quaternion(ValueOf(t["qx"]), ValueOf(t["qy"]),
                                           ValueOf(t["qz"]), ValueOf(t["qw"]))
                IN  IF ~Returned(rotation) THEN Raise(rotation.err)
                    ELSE HandeyeCalibration(
                             <<ValueOf(params)>>,
                             <<Transform(ValueOf(translation), ValueOf(rotation))>>)

----------------------------------------------------------------------------
(* yaml: a text is well-formed and denotes a document, or is malformed     *)

YamlText(doc) == [syntax |-> "ok", doc |-> doc]
Malformed == [syntax |-> "error", doc |-> NoneObj]
NoText == [syntax |-> "none", doc |-> NoneObj]

\* yaml.dump(obj, default_flow_style=False)
yaml_dump(obj) == YamlText(obj)

\* yaml.safe_load(text)
yaml_safe_load(text) ==
    IF text.syntax = "ok" THEN Return(text.doc) ELSE Raise("YAMLError")

\* HandeyeCalibration.to_yaml(calibration)
to_yaml(c) == yaml_dump(to_dict(c))

\* from_yaml that takes a text that does not parse for an empty document
from_yaml_parse_errors_ignored(in_yaml) ==
    LET r == from_dict(in_yaml.doc)
    IN  [err |-> r.err, val |-> r.val, dict |-> <<in_yaml.doc>>]

\* HandeyeCalibration.from_yaml(in_yaml): the argument of from_dict is
\* evaluated first; `dict` is <<d>> when from_dict was called with d
from_yaml(in_yaml) ==
    LET loaded == yaml_safe_load(in_yaml)
    IN  IF ~Returned(loaded) THEN [err |-> loaded.err, val |-> <<>>, dict |-> <<>>]
        ELSE LET r == from_dict(ValueOf(loaded))
             IN  [err |-> r.err, val |-> r.val, dict |-> loaded.val]

----------------------------------------------------------------------------
(* HandeyeCalibrationParametersProvider                                    *)

ProviderNames == RequiredFields

\* a rcl_interfaces ParameterValue: its type and its typed fields, each at
\* its default unless it is the field of that type
StringParameter(s) == [type |-> "STRING", bool_value |-> FALSE, string_value |-> s]
BoolParameter(b) == [type |-> "BOOL", bool_value |-> b, string_value |-> ""]
NotSet == [type |-> "NOT_SET", bool_value |-> FALSE, string_value |-> ""]

PyBool(b) == IF b THEN True ELSE False

\* HandeyeCalibrationParametersProvider.__init__(node): declares the seven
\* names; a name takes the value of its override, if the node was given one
declare_parameters(store, overrides) ==
    IF ProviderNames \cap DOMAIN store # {} THEN Raise("ParameterAlreadyDeclaredException")
    ELSE Return([n \in DOMAIN store \cup ProviderNames |->
                    IF n \in DOMAIN store THEN store[n]
                    ELSE IF n \in DOMAIN overrides THEN overrides[n] ELSE NotSet])

\* node.get_parameter(name).get_parameter_value().string_value
string_value(store, n) == Str(store[n].string_value)

\* node.get_parameter(name).get_parameter_value().bool_value
bool_value(store, n) == PyBool(store[n].bool_value)

\* read() that also takes the move group from the node, when it is declared
read_with_move_group(store) ==
    IF ~(ProviderNames \subseteq DOMAIN store) THEN Raise("ParameterNotDeclaredException")
    ELSE HandeyeCalibrationParameters(Dict(
            [f \in Fields \cap DOMAIN store |->
                IF f \in {"eye_in_hand", "freehand_robot_movement"}
                THEN PyBool(store[f].bool_value) ELSE Str(store[f].string_value)]))

\* HandeyeCalibrationParametersProvider.read()
read(store) ==
    IF ~(ProviderNames \subseteq DOMAIN store) THEN Raise("ParameterNotDeclaredException")
    ELSE HandeyeCalibrationParameters(Dict(
            [name |-> string_value(store, "name"),
             eye_in_hand |-> bool_value(store, "eye_in_hand"),
             robot_base_frame |-> string_value(store, "robot_base_frame"),
             robot_effector_frame |-> string_value(store, "robot_effector_frame"),
             tracking_base_frame |-> string_value(store, "tracking_base_frame"),
             tracking_marker_frame |-> string_value(store, "tracking_marker_frame"),
             freehand_robot_movement |-> bool_value(store, "freehand_robot_movement")]))

----------------------------------------------------------------------------
(* The inputs of the operations                                            *)

\* how many sample transforms the operations are given
MaxTransforms == 1

\* the parameters of a calibration, as from_dict takes them
ParametersDict(eye_in_hand, with_move_group) ==
    LET required == [name |-> Str("cal1"),
                     eye_in_hand |-> eye_in_hand,
                     robot_base_frame |-> Str("base_link"),
                     robot_effector_frame |-> Str("tool0"),
                     tracking_base_frame |-> Str("camera"),
                     tracking_marker_frame |-> Str("marker"),
                     freehand_robot_movement |-> False]
        named == [move_group_namespace |-> Str("/arm"), move_group |-> Str("arm")]
    IN  Dict([f \in IF with_move_group THEN Fields ELSE RequiredFields |->
                 IF f \in RequiredFields THEN required[f] ELSE named[f]])

Without(o, key) == Dict([k \in DOMAIN o.d \ {key} |-> o.d[k]])
With(o, key, value) == Dict([k \in DOMAIN o.d \cup {key} |-> IF k = key THEN value ELSE o.d[k]])

\* a value of another type than the one the field is declared with
WrongTyped(value) == IF value.t = "bool" THEN Str("false") ELSE True

\* the two valid parameter mappings the defective ones are made from
EyeInHand == ParametersDict(True, FALSE)
EyeOnBase == ParametersDict(False, TRUE)

ValidParameters == {ParametersDict(e, m) : e \in {True, False}, m \in BOOLEAN}

ParametersInputs ==
    ValidParameters
    \cup UNION {{Without(p, k) : k \in DOMAIN p.d} : p \in {EyeInHand, EyeOnBase}}
    \cup UNION {{With(p, k, WrongTyped(p.d[k])) : k \in DOMAIN p.d} : p \in {EyeInHand, EyeOnBase}}
    \cup {With(p, "eye_in_hand", Str("")) : p \in {EyeInHand, EyeOnBase}}
    \cup {With(EyeInHand, "namespace", Str("/")), NoneObj}

\* the decimal numerals of the sample transforms
Decimal == <<"1.0", "2.0", "3.0", "4.0", "5.0", "6.0">>

\* the k-th sample transform, as a Transform and as from_dict takes it
SampleTransform(k) ==
    Transform([x |-> Float(Decimal[k]), y |-> Float(Decimal[k + 1]), z |-> Float(Decimal[k + 2])],
              [x |-> Float("0.1"), y |-> Float("0.2"), z |-> Float("0.3"), w |-> Float("0.9")])

TransformationDict(k) ==
    Dict([x |-> Float(Decimal[k]), y |-> Float(Decimal[k + 1]), z |-> Float(Decimal[k + 2]),
          qx |-> Float("0.1"), qy |-> Float("0.2"), qz |-> Float("0.3"), qw |-> Float("0.9")])

Moved == TransformationDict(1)

ValidTransformations == {TransformationDict(k) : k \in 1..MaxTransforms}

IncompleteTransformations == {Without(Moved, k) : k \in DOMAIN Moved.d}

TransformationInputs ==
    ValidTransformations \cup IncompleteTransformations
    \cup {With(Moved, "x", Int("1")), With(Moved, "qw", Str("1.0")), NoneObj}

\* parameter mappings that are defective themselves
DefectiveParameters ==
    {Without(EyeInHand, "name"), With(EyeInHand, "eye_in_hand", Str("false")),
     With(EyeInHand, "robot_effector_frame", True),
     With(EyeInHand, "namespace", Str("/")), NoneObj}

DictInputs ==
    {Dict([parameters |-> p, transformation |-> Moved]) : p \in ParametersInputs}
    \cup {Dict([parameters |-> p, transformation |-> t]) :
            p \in ValidParameters, t \in ValidTransformations}
    \cup {Dict([parameters |-> EyeInHand, transformation |-> t]) : t \in TransformationInputs}
    \cup {Dict([parameters |-> p, transformation |-> t]) :
            p \in DefectiveParameters,
            t \in {Without(Moved, "x"), Without(Moved, "qw"), With(Moved, "x", Int("1"))}}
    \cup {Dict([parameters |-> p]) : p \in DefectiveParameters \cup {EyeInHand, EyeOnBase}}
    \cup {Dict([transformation |-> t]) : t \in {Moved, Without(Moved, "x"), NoneObj}}
    \cup {Dict(NoItems), NoneObj, Str("calibration")}

\* the transforms an external calibration computation hands to the constructor
TransformInputs == {<<>>} \cup {<<SampleTransform(k)>> : k \in 1..MaxTransforms}

Namespaces == {"cal1", "/robot/cal1/"}

\* the parameter overrides a node is started with
Overrides ==
    {[name |-> StringParameter("cal1"), eye_in_hand |-> BoolParameter(TRUE),
      robot_base_frame |-> StringParameter("base_link"),
      robot_effector_frame |-> StringParameter("tool0"),
      tracking_base_frame |-> StringParameter("camera"),
      tracking_marker_frame |-> StringParameter("marker"),
      freehand_robot_movement |-> BoolParameter(TRUE),
      move_group |-> StringParameter("arm")],
     [name |-> StringParameter("cal2"), eye_in_hand |-> StringParameter("true"),
      robot_base_frame |-> StringParameter("base_link"),
      tracking_base_frame |-> StringParameter("camera")]}

\* the parameters another component declared on the node
DeclaredElsewhere ==
    {NoItems,
     [move_group_namespace |-> StringParameter("/arm"), move_group |-> StringParameter("arm")]}

----------------------------------------------------------------------------
(* The files at the start                                                  *)

\* the file in DIRECTORY
StoredFile == "~/.ros2/easy_handeye/cal1.yaml"

\* the texts of the files outside DIRECTORY at the start
DataFiles ==
    [good |-> YamlText(Dict([parameters |-> ParametersDict(True, TRUE),
                             transformation |-> Moved])),
     defaults |-> YamlText(Dict([parameters |-> ParametersDict(False, FALSE),
                                 transformation |-> Moved])),
     integers |-> YamlText(Dict([parameters |-> ParametersDict(True, FALSE),
                                 transformation |-> With(Moved, "qx", Int("0"))])),
     partial |-> YamlText(Dict([parameters |-> ParametersDict(True, FALSE)])),
     untyped |-> YamlText(Dict([parameters |->
                                    With(ParametersDict(True, FALSE), "name", True),
                                transformation |-> Moved])),
     empty |-> YamlText(NoneObj),
     broken |-> Malformed]

\* the text a file holds at the start
InitialText(name) == IF name = StoredFile THEN DataFiles["defaults"] ELSE DataFiles[name]

FileNames == DOMAIN DataFiles \cup {StoredFile, "missing"}

\* the files that exist at the start
FileSystem(with_directory) ==
    DOMAIN DataFiles \cup (IF with_directory THEN {StoredFile} ELSE {})

Texts == {DataFiles[n] : n \in DOMAIN DataFiles}

----------------------------------------------------------------------------
(* The file operations                                                    *)

DIRECTORY == "~/.ros2/easy_handeye"

\* filename as the unreachable line after the raise intends it
filename_implemented(c) == Return("~/.ros2/easy_handeye/cal1.yaml")

\* HandeyeCalibration.filename(self)
filename(c) == Raise("ValueError")

\* HandeyeCalibration.filename_for_namespace(name)
filename_for_namespace(name) == Raise("ValueError")

\* entering `with open(name, mode)`: the handle is open inside the block
with_enter(handles, name) == handles \cup {name}

\* a close() after the body instead of a `with`: skipped when the body raises
with_exit_on_success(handles, name, err) ==
    IF err = "ok" THEN handles \ {name} ELSE handles

\* leaving the `with` block, by its end or by the exception `err`
with_exit(handles, name, err) == handles \ {name}

\* the outcome of an operation on the filesystem `fs` =
\* [dir, files, written, handles]; text: the text it read, if any
FsOutcome(err, val, dict, text, fs, calls) ==
    [err |-> err, val |-> val, dict |-> dict, syntax |-> text.syntax,
     dir |-> fs.dir, files |-> fs.files, written |-> fs.written,
     handles |-> fs.handles, io |-> calls]

\* the text of a file: what was written to it, else what it held at the start
Content(name, fs) ==
    IF name \in DOMAIN fs.written THEN fs.written[name] ELSE InitialText(name)

\* `with open(name) as calib_file: return from_yaml(calib_file.read())`,
\* the body of from_file and of from_filename; read_ok: the read succeeds
ReadCalibration(name, fs, read_ok) ==
    IF name \notin fs.files
    THEN FsOutcome("FileNotFoundError", <<>>, <<>>, NoText, fs, <<"open">>)
    ELSE LET inside == with_enter(fs.handles, name)
             text == IF read_ok THEN Content(name, fs) ELSE NoText
             body == IF read_ok THEN from_yaml(text)
                     ELSE [err |-> "OSError", val |-> <<>>, dict |-> <<>>]
             after == [fs EXCEPT !.handles = with_exit(inside, name, body.err)]
         IN  FsOutcome(body.err, body.val, body.dict, text, after,
                       IF after.handles = fs.handles THEN <<"open", "read", "close">>
                       ELSE <<"open", "read">>)

\* HandeyeCalibration.from_filename(filename)
from_filename(name, fs, read_ok) == ReadCalibration(name, fs, read_ok)

\* HandeyeCalibration.from_file(namespace): the path is derived before open
from_file(namespace, fs, read_ok) ==
    LET path == filename_for_namespace(namespace)
    IN  IF ~Returned(path) THEN FsOutcome(path.err, <<>>, <<>>, NoText, fs, <<>>)
        ELSE ReadCalibration(ValueOf(path), fs, read_ok)

\* to_file with the path derived before the directory is made
to_file_path_first(c, fs, mkdir_ok) ==
    FsOutcome(filename(c).err, <<>>, <<>>, NoText, fs, <<>>)

\* HandeyeCalibration.to_file(calibration); mkdir_ok: os.makedirs succeeds.
\* open(path, 'w') creates or truncates the file before to_yaml is evaluated.
to_file(c, fs, mkdir_ok) ==
    LET making == ~fs.dir
        made == [fs EXCEPT !.dir = fs.dir \/ mkdir_ok]
        calls == IF making THEN <<"makedirs">> ELSE <<>>
    IN  IF making /\ ~mkdir_ok THEN FsOutcome("OSError", <<>>, <<>>, NoText, fs, calls)
        ELSE
        LET path == filename(c)
        IN  IF ~Returned(path) THEN FsOutcome(path.err, <<>>, <<>>, NoText, made, calls)
            ELSE
            LET name == ValueOf(path)
                truncated == [n \in DOMAIN made.written \cup {name} |->
                                 IF n = name THEN YamlText(NoneObj) ELSE made.written[n]]
                inside == with_enter(made.handles, name)
                after == [made EXCEPT !.files = made.files \cup {name},
                                      !.written = [truncated EXCEPT ![name] = to_yaml(c)],
                                      !.handles = with_exit(inside, name, "ok")]
            IN  FsOutcome("ok", <<>>, <<>>, NoText, after,
                          calls \o <<"open", "write", "close">>)

----------------------------------------------------------------------------
(* The state machine                                                       *)

Operation(op, name, syntax, err) == [op |-> op, name |-> name, syntax |-> syntax, err |-> err]

Init ==
    /\ check_fields \in BOOLEAN
    /\ dir_exists \in BOOLEAN
    /\ files = FileSystem(dir_exists)
    /\ written = NoItems
    /\ open_handles = {}
    /\ node_params \in DeclaredElsewhere
    /\ provider = FALSE
    /\ parameters = <<>>
    /\ calibration = <<>>
    /\ in_dict = <<>>
    /\ io = <<>>
    /\ last = Operation("none", "", "none", "ok")

fs == [dir |-> dir_exists, files |-> files, written |-> written, handles |-> open_handles]

\* HandeyeCalibrationParametersProvider(node)
ProviderInit(overrides) ==
    LET r == declare_parameters(node_params, overrides)
    IN  /\ node_params' = IF Returned(r) THEN ValueOf(r) ELSE node_params
        /\ provider' = (provider \/ Returned(r))
        /\ in_dict' = <<>>
        /\ io' = <<>>
        /\ last' = Operation("provider", "", "none", r.err)
        /\ UNCHANGED <<check_fields, dir_exists, files, written, open_handles, parameters, calibration>>

\* provider.read()
Read ==
    /\ provider
    /\ LET r == read(node_params)
       IN  /\ parameters' = r.val
           /\ last' = Operation("read", "", "none", r.err)
    /\ in_dict' = <<>>
    /\ io' = <<>>
    /\ UNCHANGED <<check_fields, dir_exists, files, written, open_handles, node_params, provider,
                   calibration>>

\* HandeyeCalibration(parameters, transformation)
Create(transformation) ==
    LET r == HandeyeCalibration(parameters, transformation)
    IN  /\ calibration' = r.val
        /\ last' = Operation("__init__", "", "none", r.err)
        /\ in_dict' = <<>>
        /\ io' = <<>>
        /\ UNCHANGED <<check_fields, dir_exists, files, written, open_handles, node_params,
                       provider, parameters>>

\* HandeyeCalibration.from_dict(d)
FromDict(d) ==
    LET r == from_dict(d)
    IN  /\ calibration' = r.val
        /\ last' = Operation("from_dict", "", "none", r.err)
        /\ in_dict' = <<d>>
        /\ io' = <<>>
        /\ UNCHANGED <<check_fields, dir_exists, files, written, open_handles, node_params,
                       provider, parameters>>

\* HandeyeCalibration.from_dict(HandeyeCalibration.to_dict(calibration))
RoundTrip ==
    /\ calibration # <<>>
    /\ LET d == to_dict(calibration[1])
           r == from_dict(d)
       IN  /\ calibration' = r.val
           /\ last' = Operation("round_trip", "", "none", r.err)
           /\ in_dict' = <<d>>
    /\ io' = <<>>
    /\ UNCHANGED <<check_fields, dir_exists, files, written, open_handles, node_params, provider,
                   parameters>>

\* HandeyeCalibration.from_yaml(text)
FromYaml(text) ==
    LET r == from_yaml(text)
    IN  /\ calibration' = r.val
        /\ last' = Operation("from_yaml", "", text.syntax, r.err)
        /\ in_dict' = r.dict
        /\ io' = <<>>
        /\ UNCHANGED <<check_fields, dir_exists, files, written, open_handles, node_params,
                       provider, parameters>>

\* what an operation on the filesystem leaves behind
Leaves(op, name, r) ==
    /\ dir_exists' = r.dir
    /\ files' = r.files
    /\ written' = r.written
    /\ open_handles' = r.handles
    /\ io' = r.io
    /\ in_dict' = r.dict
    /\ last' = Operation(op, name, r.syntax, r.err)

\* HandeyeCalibration.to_file(calibration)
ToFile(mkdir_ok) ==
    /\ calibration # <<>>
    /\ Leaves("to_file", "", to_file(calibration[1], fs, mkdir_ok))
    /\ UNCHANGED <<check_fields, node_params, provider, parameters, calibration>>

\* HandeyeCalibration.from_file(namespace)
FromFile(namespace, read_ok) ==
    LET r == from_file(namespace, fs, read_ok)
    IN  /\ Leaves("from_file", namespace, r)
        /\ calibration' = r.val
        /\ UNCHANGED <<check_fields, node_params, provider, parameters>>

\* HandeyeCalibration.from_filename(name)
FromFilename(name, read_ok) ==
    LET r == from_filename(name, fs, read_ok)
    IN  /\ Leaves("from_filename", name, r)
        /\ calibration' = r.val
        /\ UNCHANGED <<check_fields, node_params, provider, parameters>>

Next ==
    \/ \E o \in Overrides : ProviderInit(o)
    \/ Read
    \/ \E t \in TransformInputs : Create(t)
    \/ \E d \in DictInputs : FromDict(d)
    \/ RoundTrip
    \/ \E text \in Texts : FromYaml(text)
    \/ \E ok \in BOOLEAN : ToFile(ok)
    \/ \E n \in Namespaces, ok \in BOOLEAN : FromFile(n, ok)
    \/ \E n \in FileNames, ok \in BOOLEAN : FromFilename(n, ok)

Spec == Init /\ [][Next]_vars

----------------------------------------------------------------------------
(* Properties                                                              *)

TransformKeys == {"x", "y", "z", "qx", "qy", "qz", "qw"}

\* the exceptions by which a structure that does not fit the schema shows
SchemaMismatch == {"KeyError", "TypeError", "AssertionError"}

\* no file was created, removed or rewritten since the start
FilesUntouched == written = NoItems /\ files = FileSystem(StoredFile \in files)

\* the frame names of c follow from the parameters p
FramesFollow(c, p) ==
    /\ p.eye_in_hand = True => c.transformation.header.frame_id = p.robot_effector_frame
    /\ p.eye_in_hand = False => c.transformation.header.frame_id = p.robot_base_frame
    /\ c.transformation.child_frame_id = p.tracking_base_frame

\* C1: every calibration any operation has produced has frame_id equal to
\* robot_effector_frame when eye_in_hand is true and to robot_base_frame when
\* it is false, and child_frame_id equal to tracking_base_frame.
C1_FramesDerived ==
    calibration # <<>> => FramesFollow(calibration[1], calibration[1].parameters)

C1_Witness ==
    /\ calibration # <<>>
    /\ last.op = "__init__"
    /\ calibration[1].parameters.eye_in_hand = False
    /\ calibration[1].parameters.robot_effector_frame # calibration[1].parameters.robot_base_frame
    /\ calibration[1].transformation.header.frame_id = Str("base_link")
    /\ calibration[1].transformation.child_frame_id = Str("camera")

\* C2: from_dict(to_dict(r)) returns a record with the nine parameter fields
\* and the seven transform components of r, and with frame names that follow
\* from r's parameters.
C2_RoundTrip ==
    [][last'.op = "round_trip" =>
        /\ last'.err = "ok"
        /\ calibration' # <<>>
        /\ \A f \in Fields : calibration'[1].parameters[f] = calibration[1].parameters[f]
        /\ LET old == calibration[1].transformation.transform
               new == calibration'[1].transformation.transform
           IN  /\ \A k \in {"x", "y", "z"} : new.translation[k] = old.translation[k]
               /\ \A k \in {"x", "y", "z", "w"} : new.rotation[k] = old.rotation[k]
        /\ FramesFollow(calibration'[1], calibration[1].parameters)]_vars

C2_Witness ==
    /\ last.op = "round_trip"
    /\ last.err = "ok"
    /\ calibration # <<>>
    /\ calibration[1].parameters.move_group = Str("arm")
    /\ calibration[1].transformation.transform.translation.x = Float("1.0")
    /\ calibration[1].transformation.transform.rotation.x = Float("0.1")
    /\ calibration[1].transformation.transform.rotation.w = Float("0.9")

LacksTransformation(d) ==
    /\ d.t = "dict"
    /\ \/ "transformation" \notin DOMAIN d.d
       \/ /\ d.d.transformation.t = "dict"
          /\ ~(TransformKeys \subseteq DOMAIN d.d.transformation.d)

\* C4: from_dict on a mapping without 'transformation', or whose
\* 'transformation' lacks one of x, y, z, qx, qy, qz, qw, fails with a schema
\* mismatch and returns no record, whatever 'parameters' holds.
C4_MissingTransformationRaises ==
    (in_dict # <<>> /\ LacksTransformation(in_dict[1])) =>
        last.err \in SchemaMismatch /\ calibration = <<>>

C4_Witness ==
    /\ last.op = "from_dict"
    /\ in_dict # <<>>
    /\ in_dict[1].t = "dict"
    /\ DOMAIN in_dict[1].d = {"parameters", "transformation"}
    /\ in_dict[1].d.parameters = EyeInHand
    /\ in_dict[1].d.transformation.t = "dict"
    /\ DOMAIN in_dict[1].d.transformation.d = TransformKeys \ {"qw"}
    /\ last.err = "KeyError"
    /\ calibration = <<>>

\* the object d is a mapping whose 'parameters' is a mapping
HasParameters(d) ==
    d.t = "dict" /\ "parameters" \in DOMAIN d.d /\ d.d.parameters.t = "dict"

LacksRequiredField(d) == ~(RequiredFields \subseteq DOMAIN d.d.parameters.d)

HoldsWrongType(d) ==
    \E f \in DOMAIN d.d.parameters.d \cap Fields : d.d.parameters.d[f].t # FieldTypes[f]

WellFormedButForTypes(d) ==
    /\ HasParameters(d)
    /\ RequiredFields \subseteq DOMAIN d.d.parameters.d
    /\ DOMAIN d.d.parameters.d \subseteq Fields
    /\ "transformation" \in DOMAIN d.d
    /\ d.d.transformation.t = "dict"
    /\ DOMAIN d.d.transformation.d = TransformKeys
    /\ \A k \in TransformKeys : d.d.transformation.d[k].t = "float"

\* the values the constructor copies to frame_id and child_frame_id are strings
FrameNamesAreStrings(p) ==
    /\ (IF Truthy(p.eye_in_hand) THEN p.robot_effector_frame ELSE p.robot_base_frame).t = "str"
    /\ p.tracking_base_frame.t = "str"

C6_ParseErrorFirst ==
    (last.op \in {"from_yaml", "from_filename", "from_file"} /\ last.syntax = "error") =>
        last.err = "YAMLError" /\ in_dict = <<>> /\ calibration = <<>>

C6_Witness ==
    /\ last.op = "from_yaml"
    /\ last.syntax = "error"
    /\ last.err = "YAMLError"

\* C7: the record read() returned has move_group_namespace '/' and move_group
\* 'manipulator', also when the node has parameters of those names, and its
\* other seven fields hold the node's values of their names, each taken as
\* the string or the boolean value its field is declared to have.
C7_ReadOmitsMoveGroup ==
    parameters # <<>> =>
        LET p == parameters[1]
        IN  /\ p.move_group_namespace = Str("/")
            /\ p.move_group = Str("manipulator")
            /\ \A f \in RequiredFields :
                  /\ f \in DOMAIN node_params
                  /\ p[f].t = FieldTypes[f]
                  /\ FieldTypes[f] = "str" => p[f].v = node_params[f].string_value
                  /\ FieldTypes[f] = "bool" => (p[f] = True) = node_params[f].bool_value

C7_Witness ==
    /\ last.op = "read"
    /\ parameters # <<>>
    /\ "move_group" \in DOMAIN node_params
    /\ node_params.move_group.string_value = "arm"
    /\ node_params.move_group_namespace.string_value = "/arm"
    /\ parameters[1].move_group = Str("manipulator")
    /\ parameters[1].name = Str("cal1")
    /\ parameters[1].eye_in_hand = True

\* C9: no operation leaves a file handle open: whatever to_file, from_file or
\* from_filename opened is closed when it returns or fails, also when the
\* read, the parse or from_dict fails.
C9_HandlesClosed ==
    /\ open_handles = {}
    /\ (\E i \in 1..Len(io) : io[i] \in {"read", "write"}) => io[Len(io)] = "close"

C9_Witness ==
    /\ last.op = "from_filename"
    /\ last.err = "YAMLError"
    /\ io = <<"open", "read", "close">>
    /\ open_handles = {}

\* C10 as claimed: after any call of to_file the directory exists, the call
\* has failed, no file was created or modified, and making the directory was
\* the only call on the filesystem.
C10_DirectoryExistsAfterToFile ==
    last.op = "to_file" =>
        /\ dir_exists
        /\ last.err # "ok"
        /\ FilesUntouched
        /\ \A i \in 1..Len(io) : io[i] = "makedirs"

\* C10 as amended: to_file fails; when it fails in the path derivation the
\* directory exists (it was made first if it was missing), and when making
\* the directory itself fails it does not; in both cases no file was created
\* or modified and making the directory was the only call on the filesystem.
C10_DirectoryMadeBeforeDerivation ==
    last.op = "to_file" =>
        /\ last.err \in {"ValueError", "OSError"}
        /\ last.err = "ValueError" => dir_exists
        /\ last.err = "OSError" => ~dir_exists /\ io = <<"makedirs">>
        /\ FilesUntouched
        /\ \A i \in 1..Len(io) : io[i] = "makedirs"

C10_Witness ==
    /\ last.op = "to_file"
    /\ last.err = "ValueError"
    /\ io = <<"makedirs">>
    /\ dir_exists
    /\ StoredFile \notin files

====
